---- MODULE Spec2Model ----
(***************************************************************************)
(* Model of the Modus brightness service (services/brightness.py) and of   *)
(* the Hyprland monitor resolver (utils/monitors.py).                      *)
(*                                                                         *)
(* SpecBrightness : the Brightness service, its sysfs files, the commands  *)
(*                  it hands to brightnessctl and the file monitor.        *)
(* SpecMonitors   : get_all_monitors behind ttl_lru_cache(100, 5).         *)
(* SpecGdk        : get_gdk_monitor_id_from_name over a Gdk display.       *)
(***************************************************************************)
EXTENDS Integers, Sequences, FiniteSets, TLC

\* ------------------------------------------------------------------ bounds
\* Setter arguments: -NegValues..InputMax and the larger values of
\* LargeValues (levels of the 0..100 VM scale and values beyond it).
InputMax == 5
NegValues == 2
LargeValues == {29, 58, 100, 101, 300}
Values == ((0 - NegValues)..InputMax) \cup LargeValues
\* brightnessctl processes that may be running at once, and file-change
\* notifications that may be waiting in the event loop.
MaxPending == 1
\* Contents of <device>/max_brightness on the machines modelled.
MaxLevels == {0, 3}
Devices == {"", "intel_backlight"}
\* The wall clock runs from 0 to MaxTime seconds in steps of TimeStep.
MaxTime == 550
TimeStep == 50
\* get_all_monitors calls made within one time window.
MaxCalls == 2
\* Monitors a display may have.
MaxOutputs == 2

\* ------------------------------------------------------- program constants
\* self.max_screen = 100 in VM compatibility mode.
VM_MAX_SCREEN == 100
\* self.simulated_brightness = 100
DEFAULT_SIMULATED == 100
\* the factor of the percentage, (value / max_screen) * 100
PERCENT == 100
\* significand width of a Python float (IEEE-754 binary64)
MANT_DIG == 53
\* @ttl_lru_cache(100, 5)
seconds_to_live == 100
maxsize == 5

\* ------------------------------------------------------------ small helpers
Max2(a, b) == IF a >= b THEN a ELSE b
Min2(a, b) == IF a <= b THEN a ELSE b
Abs(a) == IF a < 0 THEN -a ELSE a

\* Python's None / a value, as a sequence of length 0 / 1.
NoneVal == <<>>
Some(x) == <<x>>

\* ---------------------------------------------- Python float arithmetic
\* A Python float is an IEEE-754 binary64: MANT_DIG significant bits, every
\* operation rounded to nearest, ties to even.  Significands do not fit a
\* TLC integer, so they are sequences of base-2^9 digits, most significant
\* digit first.  Operands are below 2^17, far above any backlight range the
\* model draws.
Base == 2 ^ 9

RECURSIVE BitLen(_)
BitLen(n) == IF n = 0 THEN 0 ELSE 1 + BitLen(n \div 2)

RECURSIVE ToInt(_)
ToInt(digits) ==
    IF digits = <<>> THEN 0
    ELSE Base * ToInt(SubSeq(digits, 1, Len(digits) - 1)) + digits[Len(digits)]

\* digits * c + carry, for small ints c and carry; one more digit when the
\* carry leaves the string.
RECURSIVE MulAdd(_, _, _)
MulAdd(digits, c, carry) ==
    IF digits = <<>> THEN (IF carry = 0 THEN <<>> ELSE <<carry>>)
    ELSE LET n == Len(digits)
             t == c * digits[n] + carry
         IN  MulAdd(SubSeq(digits, 1, n - 1), c, t \div Base) \o <<t % Base>>

\* The string with its lowest k bits (k < 9) rounded away, to nearest, ties
\* to even; `tail` says that non-zero bits follow the string.  The result
\* keeps the scale: its lowest k bits are zero.
RoundLow(digits, k, tail) ==
    IF k = 0 THEN digits
    ELSE LET n      == Len(digits)
             low    == digits[n]
             kept   == low \div (2 ^ k)
             guard  == (low \div (2 ^ (k - 1))) % 2
             sticky == tail \/ (low % (2 ^ (k - 1)) # 0)
             up     == guard = 1 /\ (sticky \/ kept % 2 = 1)
             cut    == [digits EXCEPT ![n] = kept * (2 ^ k)]
         IN  IF up THEN MulAdd(cut, 1, 2 ^ k) ELSE cut

\* n more base-2^9 digits of the quotient r/d (r < d), and the remainder.
RECURSIVE DivDigits(_, _, _)
DivDigits(r, d, n) ==
    IF n = 0 THEN [digits |-> <<>>, rem |-> r]
    ELSE LET t    == r * Base
             rest == DivDigits(t % d, d, n - 1)
         IN  [digits |-> <<t \div d>> \o rest.digits, rem |-> rest.rem]

\* Scale a/b into [1, 2): a/b = (n/d) * 2^e.
RECURSIVE Normalize(_, _, _)
Normalize(n, d, e) ==
    IF n < d THEN Normalize(2 * n, d, e - 1)
    ELSE IF n >= 2 * d THEN Normalize(n, 2 * d, e + 1)
    ELSE [n |-> n, d |-> d, e |-> e]

\* a / b for positive ints.  The quotient is taken to MANT_DIG + 1 bits (a
\* leading digit of 9 bits, then 5 digits) and its last bit rounded away:
\* the float is ToInt(sig) * 2^(e - MANT_DIG).
FloatDiv(a, b) ==
    LET nm   == Normalize(a, b, 0)
        t    == (nm.n - nm.d) * (2 ^ 8)
        q    == DivDigits(t % nm.d, nm.d, (MANT_DIG + 1) \div 9 - 1)
        raw  == <<2 ^ 8 + t \div nm.d>> \o q.digits
    IN  [sig |-> RoundLow(raw, 1, q.rem # 0), e |-> nm.e]

\* int(f * c) for a positive float f and a small positive int c: the exact
\* product is rounded to MANT_DIG bits, then truncated to an integer.
FloatMulTrunc(f, c) ==
    LET prod  == MulAdd(f.sig, c, 0)
        bits  == 9 * (Len(prod) - 1) + BitLen(prod[1])
        sig   == RoundLow(prod, bits - MANT_DIG, FALSE)
        \* the product is ToInt(sig) / 2^shift
        shift == MANT_DIG - f.e
        whole == SubSeq(sig, 1, Len(sig) - shift \div 9)
    IN  ToInt(whole) \div (2 ^ (shift % 9))

\* int((value / max_screen) * 100), max_screen # 0.  int() truncates toward
\* zero and the rounding of floats is symmetric in the sign.
TruncPercent(value, max_screen) ==
    IF value = 0 THEN 0
    ELSE LET p == FloatMulTrunc(FloatDiv(Abs(value), Abs(max_screen)), PERCENT)
         IN  IF (value < 0) = (max_screen < 0) THEN p ELSE -p

\* ================================================================ state
VARIABLES
    \* --- services/brightness.py
    vm_mode,              \* module global vm_mode = is_running_in_vm()
    screen_device,        \* module global screen_device
    max_screen,           \* Brightness.max_screen
    simulated_brightness, \* Brightness.simulated_brightness
    brightness_file,      \* content of <device>/brightness, NoneVal if absent
    pending,              \* brightnessctl processes started and not finished
    notices,              \* "changed" notifications of the file monitor queued
    \* --- the step just taken and what the caller saw of it
    op,                   \* name of the operation
    arg,                  \* its argument
    ret,                  \* its return value
    emitted,              \* payloads of the screen signal it emitted
    invoked,              \* exec_brightnessctl_async calls it made
    raised                \* exception it let through to its caller

bvars == <<vm_mode, screen_device, max_screen, simulated_brightness,
           brightness_file, pending, notices>>
svars == <<op, arg, ret, emitted, invoked, raised>>

VARIABLES
    \* --- utils/monitors.py
    VM_MODE,              \* module global VM_MODE = is_running_in_vm()
    now,                  \* time.time(), in seconds
    cache,                \* entries of the lru_cache, least recently used first
    allocated,            \* dict objects built so far; the last one has this id
    display,              \* the Gdk display: is it there, and its monitors
    \* --- history of the get_all_monitors calls
    win,                  \* time window of the latest call
    n_calls,              \* calls made in that window
    n_sent,               \* j/monitors requests sent in that window
    first,                \* what the first call of that window returned
    prev                  \* what the latest call of an earlier window returned

mvars == <<VM_MODE, now, cache, allocated, win, n_calls, n_sent, first, prev>>
gvars == <<display>>
vars == <<bvars, svars, mvars, gvars>>

NoException == "none"

\* ====================================================== brightness.py
\* Brightness.do_read_max_brightness: the content of <path>/max_brightness,
\* or -1 when the file does not exist.
do_read_max_brightness(max_file) ==
    IF max_file # NoneVal THEN max_file[1] ELSE -1

\* The test `self.vm_mode and not screen_device`.
Simulated == vm_mode /\ screen_device = ""

\* Brightness.__init__ on a machine with the given max_brightness file.
BrightnessInit(vm, device, max_file, level) ==
    /\ vm_mode = vm
    /\ screen_device = device
    /\ simulated_brightness = DEFAULT_SIMULATED
    /\ max_screen = IF vm /\ device = "" THEN VM_MAX_SCREEN
                    ELSE do_read_max_brightness(max_file)
    /\ brightness_file = level
    /\ pending = <<>>
    /\ notices = 0

\* The machines: without a backlight directory there are no sysfs files; with
\* one, max_brightness holds a level and brightness a level up to it.
InitBrightness(vm, device) ==
    IF device = ""
    THEN BrightnessInit(vm, device, NoneVal, NoneVal)
    ELSE \E m \in MaxLevels : \E l \in {0, m} :
             BrightnessInit(vm, device, Some(m), Some(l))

\* The getter of screen_brightness.
ReadBrightness ==
    IF Simulated THEN simulated_brightness
    ELSE IF brightness_file # NoneVal THEN brightness_file[1]
    ELSE -1

Getter ==
    /\ op' = "get" /\ arg' = 0
    /\ ret' = Some(ReadBrightness)
    /\ emitted' = <<>> /\ invoked' = <<>> /\ raised' = NoException
    /\ UNCHANGED <<bvars, mvars, gvars>>

\* Fault: the clamp without its lower bound, min(value, max_screen).
ClampValue_NoFloor(value, max) == Min2(value, max)

\* The setter's clamp:
\*   if not (0 <= value <= self.max_screen):
\*       value = max(0, min(value, self.max_screen))
ClampValue(value, max) ==
    IF ~(0 <= value /\ value <= max) THEN Max2(0, Min2(value, max)) ELSE value

\* int((value / self.max_screen) * 100): the payload, or the exception the
\* division raises.
Percent(value, max) ==
    IF max = 0 THEN [exc |-> "ZeroDivisionError", val |-> 0]
    ELSE [exc |-> NoException, val |-> TruncPercent(value, max)]

\* What exec_shell_command_async may do with the command line: start the
\* process, or raise (GLib.Error when the spawn fails, ValueError when the
\* command line cannot be split).
SpawnOutcomes == {"ok", "GLib.Error", "ValueError"}

\* Fault: the setter with only its `except GLib.Error` handler.
Caught_GLibOnly(exc) == exc = "GLib.Error"

\* The handlers of the setter's try block: `except GLib.Error` and
\* `except Exception` catch every exception the block can raise.
Caught(exc) == exc \in {"GLib.Error", "ValueError", "ZeroDivisionError"}

Propagated(exc) == IF Caught(exc) THEN NoException ELSE exc

\* The setter's try block runs in order: the command is handed over, then
\* the signal is emitted; an exception at either point ends the block.
Raises(outcome, pct) ==
    IF outcome # "ok" THEN outcome ELSE pct.exc

\* Fault: the signal emitted before the command is handed over.
Emits_First(outcome, pct) ==
    IF pct.exc = NoException THEN <<pct.val>> ELSE <<>>

Emits(outcome, pct) ==
    IF Raises(outcome, pct) = NoException THEN <<pct.val>> ELSE <<>>

\* The setter of screen_brightness.
Setter(value, spawn) ==
    LET v   == ClampValue(value, max_screen)
        pct == Percent(v, max_screen)
    IN  /\ op' = "set" /\ arg' = value /\ ret' = NoneVal
        /\ emitted' = Emits(spawn, pct)
        /\ raised' = Propagated(Raises(spawn, pct))
        /\ IF Simulated
           THEN /\ spawn = "ok"
                /\ simulated_brightness' = v
                /\ invoked' = <<>>
                /\ UNCHANGED pending
           ELSE /\ invoked' = <<[device |-> screen_device, value |-> v,
                                 outcome |-> spawn]>>
                /\ IF spawn = "ok"
                   THEN /\ Len(pending) < MaxPending
                        /\ pending' = Append(pending, v)
                   ELSE UNCHANGED pending
                /\ UNCHANGED simulated_brightness
        /\ UNCHANGED <<vm_mode, screen_device, max_screen, brightness_file, notices>>
        /\ UNCHANGED <<mvars, gvars>>

\* A brightnessctl process ends; its callback `lambda _: None` drops the
\* result.  It writes the level when the device exists and the write
\* succeeds, and the file monitor then queues a notification.
CommandDone(i, ok) ==
    /\ i \in 1..Len(pending)
    /\ pending' = SubSeq(pending, 1, i - 1) \o SubSeq(pending, i + 1, Len(pending))
    /\ IF ok
       THEN /\ brightness_file # NoneVal
            /\ notices < MaxPending
            /\ brightness_file' = Some(pending[i])
            /\ notices' = notices + 1
       ELSE UNCHANGED <<brightness_file, notices>>
    /\ op' = "done" /\ arg' = 0 /\ ret' = NoneVal
    /\ emitted' = <<>> /\ invoked' = <<>> /\ raised' = NoException
    /\ UNCHANGED <<vm_mode, screen_device, max_screen, simulated_brightness>>
    /\ UNCHANGED <<mvars, gvars>>

\* Something else writes the brightness file (a hardware key, another tool).
ExternalChange(level) ==
    /\ brightness_file # NoneVal
    /\ notices < MaxPending
    /\ level \in 0..max_screen
    /\ brightness_file' = Some(level)
    /\ notices' = notices + 1
    /\ op' = "write" /\ arg' = 0 /\ ret' = NoneVal
    /\ emitted' = <<>> /\ invoked' = <<>> /\ raised' = NoException
    /\ UNCHANGED <<vm_mode, screen_device, max_screen, simulated_brightness, pending>>
    /\ UNCHANGED <<mvars, gvars>>

\* The "changed" handler of screen_monitor:
\*   self.emit("screen", round(int(file.load_bytes()[0].get_data())))
FileChanged ==
    /\ screen_device # ""
    /\ notices > 0
    /\ notices' = notices - 1
    /\ op' = "changed" /\ arg' = 0 /\ ret' = NoneVal
    /\ emitted' = <<brightness_file[1]>>
    /\ invoked' = <<>> /\ raised' = NoException
    /\ UNCHANGED <<vm_mode, screen_device, max_screen, simulated_brightness,
                   brightness_file, pending>>
    /\ UNCHANGED <<mvars, gvars>>

NextBrightness ==
    \/ \E value \in Values, spawn \in SpawnOutcomes : Setter(value, spawn)
    \/ Getter
    \/ \E i \in 1..MaxPending, ok \in BOOLEAN : CommandDone(i, ok)
    \/ \E level \in 0..InputMax : ExternalChange(level)
    \/ FileChanged

\* ========================================================= monitors.py
\* Replies of the compositor to "j/monitors": the request fails, the reply
\* is no JSON, or it is a JSON array of monitor objects, some of which may
\* lack "id" or "name".
eDP == [id |-> 0, name |-> "eDP-1"]
HDMI == [id |-> 1, name |-> "HDMI-A-1"]
Docked == [id |-> 0, name |-> "DP-3"]
NoName == [id |-> 1]
NoId == [name |-> "HDMI-A-1"]
MonitorLists == {<<eDP, HDMI>>, <<eDP, Docked>>, <<eDP, NoName>>, <<NoId>>}
Replies == {[kind |-> "error"], [kind |-> "garbage"]}
           \cup {[kind |-> "array", monitors |-> ms] : ms \in MonitorLists}

EmptyMap == [i \in {} |-> ""]
XWayland == [i \in {0} |-> "XWAYLAND0"]

\* {monitor["id"]: monitor["name"] for monitor in monitors}: a later entry
\* replaces an earlier one of the same id; a missing key raises KeyError.
RECURSIVE DictOf(_)
DictOf(monitors) ==
    IF monitors = <<>> THEN [exc |-> NoException, map |-> EmptyMap]
    ELSE LET n     == Len(monitors)
             m     == monitors[n]
             front == DictOf(SubSeq(monitors, 1, n - 1))
         IN  IF front.exc # NoException THEN front
             ELSE IF ~({"id", "name"} \subseteq DOMAIN m)
                  THEN [exc |-> "KeyError", map |-> EmptyMap]
             ELSE [exc |-> NoException,
                   map |-> [i \in DOMAIN front.map \cup {m.id} |->
                               IF i = m.id THEN m.name ELSE front.map[i]]]

\* The try block of get_all_monitors: send_command, json.loads, the dict.
TryMonitors(reply) ==
    IF reply.kind = "error" THEN [exc |-> "Exception", map |-> EmptyMap]
    ELSE IF reply.kind = "garbage" THEN [exc |-> "JSONDecodeError", map |-> EmptyMap]
    ELSE DictOf(reply.monitors)

\* Fault: the VM fallback forgotten, {} returned on every failure.
Fallback_Empty(vm) == EmptyMap

\* The mapping the except block returns.
Fallback(vm) == IF vm THEN XWayland ELSE EmptyMap

\* Fault: get_all_monitors without its except block; the failure reaches
\* lru_cache, which stores nothing, and then the caller.
get_all_monitors_Reraise(reply, vm) == TryMonitors(reply)

\* The body of get_all_monitors: `except Exception` turns every failure into
\* the fallback, so the function returns and never raises.
get_all_monitors(reply, vm) ==
    LET r == TryMonitors(reply)
    IN  IF r.exc # NoException THEN [exc |-> NoException, map |-> Fallback(vm)]
        ELSE r

\* Fault: the key not quantized, time.time() itself.
TtlKey_Seconds(t) == t

\* Fault: the key left out of the cached call, inner(*args).
TtlKey_None(t) == 0

\* The key ttl_lru_cache adds: time.time() // seconds_to_live.
TtlKey(t) == t \div seconds_to_live

\* lru_cache(maxsize): a hit moves the entry to the recent end; a miss stores
\* the new entry there and drops the least recently used one beyond maxsize.
Touch(c, i) == SubSeq(c, 1, i - 1) \o SubSeq(c, i + 1, Len(c)) \o <<c[i]>>

Store(c, key, value) ==
    LET full == Append(c, [key |-> key, value |-> value])
    IN  IF Len(full) > maxsize THEN Tail(full) ELSE full

\* The time window a moment lies in.
Window(t) == t \div seconds_to_live

\* HyprlandWithMonitors.get_all_monitors() as callers see it, through
\* ttl_lru_cache; `reply` is what the compositor answers if it is asked.
GetAllMonitors(reply) ==
    LET key   == TtlKey(now)
        hits  == {i \in 1..Len(cache) : cache[i].key = key}
        r     == get_all_monitors(reply, VM_MODE)
        fresh == [obj |-> allocated + 1, map |-> r.map]
        out   == IF hits # {} THEN Some(cache[CHOOSE i \in hits : TRUE].value)
                 ELSE IF r.exc = NoException THEN Some(fresh)
                 ELSE NoneVal
        sent  == IF hits # {} THEN <<>> ELSE <<"j/monitors">>
        same  == win = Some(Window(now))
    IN  /\ same => n_calls < MaxCalls
        /\ IF hits # {}
           THEN /\ cache' = Touch(cache, CHOOSE i \in hits : TRUE)
                /\ raised' = NoException
                /\ UNCHANGED allocated
           ELSE IF r.exc = NoException
           THEN /\ cache' = Store(cache, key, fresh)
                /\ allocated' = allocated + 1
                /\ raised' = NoException
           ELSE /\ raised' = r.exc
                /\ UNCHANGED <<cache, allocated>>
        /\ op' = "get_all_monitors" /\ arg' = reply
        /\ ret' = out /\ invoked' = sent /\ emitted' = <<>>
        /\ win' = Some(Window(now))
        /\ n_calls' = IF same THEN n_calls + 1 ELSE 1
        /\ n_sent' = (IF same THEN n_sent ELSE 0) + Len(sent)
        /\ first' = IF same THEN first
                    ELSE [ret |-> out, failed |-> TryMonitors(reply).exc # NoException]
        /\ prev' = IF same \/ win = NoneVal THEN prev ELSE first.ret
        /\ UNCHANGED <<VM_MODE, now, bvars, gvars>>

\* The clock moves on; time.time() is taken not to be set back.
Tick ==
    /\ now + TimeStep <= MaxTime
    /\ now' = now + TimeStep
    /\ op' = "tick" /\ arg' = 0 /\ ret' = NoneVal
    /\ emitted' = <<>> /\ invoked' = <<>> /\ raised' = NoException
    /\ UNCHANGED <<VM_MODE, cache, allocated, win, n_calls, n_sent, first, prev>>
    /\ UNCHANGED <<bvars, gvars>>

\* HyprlandWithMonitors.__init__ at process start; the cache is empty.
MonitorsInit(vm) ==
    /\ VM_MODE = vm
    /\ now = 0
    /\ cache = <<>>
    /\ allocated = 0
    /\ win = NoneVal /\ n_calls = 0 /\ n_sent = 0
    /\ first = [ret |-> NoneVal, failed |-> FALSE]
    /\ prev = NoneVal

NextMonitors ==
    \/ \E reply \in Replies : GetAllMonitors(reply)
    \/ Tick

\* ------------------------------------------------- the Gdk display
\* A monitor's plug name, or the marker of a lookup that raises.
PlugNames == {"eDP-1", "HDMI-1"}
LookupFails == "<raises>"
Plugs == PlugNames \cup {LookupFails}
\* Names asked for.
AskedNames == PlugNames \cup {"DP-3"}

\* Fault: the loop without its inner try, so that a lookup that raises ends
\* the scan in the outer except.
RECURSIVE ScanPlugs_Abort(_, _, _)
ScanPlugs_Abort(plugs, i, plug_name) ==
    IF i > Len(plugs) THEN NoneVal
    ELSE IF plugs[i] = LookupFails THEN NoneVal
    ELSE IF plugs[i] = plug_name THEN Some(i - 1)
    ELSE ScanPlugs_Abort(plugs, i + 1, plug_name)

\* The loop of get_gdk_monitor_id_from_name from index i (1-based here): an
\* index whose lookup raises is passed over; the first match is returned.
RECURSIVE ScanPlugs(_, _, _)
ScanPlugs(plugs, i, plug_name) ==
    IF i > Len(plugs) THEN NoneVal
    ELSE IF plugs[i] # LookupFails /\ plugs[i] = plug_name THEN Some(i - 1)
    ELSE ScanPlugs(plugs, i + 1, plug_name)

\* get_gdk_monitor_id_from_name: the match, else 0 in VM mode, else None;
\* the same when the display cannot be enumerated (the outer except).
gdk_monitor_id_from_name(d, plug_name, vm) ==
    LET found == IF d.available THEN ScanPlugs(d.plugs, 1, plug_name) ELSE NoneVal
    IN  IF found # NoneVal THEN found
        ELSE IF vm THEN Some(0) ELSE NoneVal

GetGdkMonitorIdFromName(plug_name) ==
    /\ op' = "get_gdk_monitor_id_from_name" /\ arg' = plug_name
    /\ ret' = gdk_monitor_id_from_name(display, plug_name, VM_MODE)
    /\ emitted' = <<>> /\ invoked' = <<>> /\ raised' = NoException
    /\ UNCHANGED <<display, bvars, mvars>>

\* Monitors come and go, and the display itself may be lost.
Plug(p) ==
    /\ Len(display.plugs) < MaxOutputs
    /\ display' = [display EXCEPT !.plugs = Append(@, p)]
    /\ op' = "plug" /\ arg' = p /\ ret' = NoneVal
    /\ emitted' = <<>> /\ invoked' = <<>> /\ raised' = NoException
    /\ UNCHANGED <<bvars, mvars>>

Unplug ==
    /\ display.plugs # <<>>
    /\ display' = [display EXCEPT !.plugs = Tail(@)]
    /\ op' = "unplug" /\ arg' = 0 /\ ret' = NoneVal
    /\ emitted' = <<>> /\ invoked' = <<>> /\ raised' = NoException
    /\ UNCHANGED <<bvars, mvars>>

DisplayLost ==
    /\ display.available
    /\ display' = [display EXCEPT !.available = FALSE]
    /\ op' = "lost" /\ arg' = 0 /\ ret' = NoneVal
    /\ emitted' = <<>> /\ invoked' = <<>> /\ raised' = NoException
    /\ UNCHANGED <<bvars, mvars>>

GdkInit == display = [available |-> TRUE, plugs |-> <<>>]

NextGdk ==
    \/ \E name \in AskedNames : GetGdkMonitorIdFromName(name)
    \/ \E p \in Plugs : Plug(p)
    \/ Unplug
    \/ DisplayLost

\* ====================================================== specifications
StepInit ==
    /\ op = "init" /\ arg = 0 /\ ret = NoneVal
    /\ emitted = <<>> /\ invoked = <<>> /\ raised = NoException

\* The brightness service on each machine; the resolver is not used.
InitB ==
    \E vm \in BOOLEAN, device \in Devices :
        /\ InitBrightness(vm, device)
        /\ StepInit /\ MonitorsInit(vm) /\ GdkInit

SpecBrightness == InitB /\ [][NextBrightness]_vars

\* The resolver, in and outside a VM; no backlight device.
InitM ==
    \E vm \in BOOLEAN :
        /\ MonitorsInit(vm)
        /\ StepInit /\ InitBrightness(vm, "") /\ GdkInit

\* The cached monitor list.
SpecMonitors == InitM /\ [][NextMonitors]_vars

\* The lookup of a plug name on the display.
SpecGdk == InitM /\ [][NextGdk]_vars

\* =========================================================== properties
\* clamp(value, lo, hi) as the specification uses it.
Clamp(value, lo, hi) == IF value < lo THEN lo ELSE IF value > hi THEN hi ELSE value

\* round(n / d), n >= 0, d > 0, ties to even.
RoundDiv(n, d) ==
    LET q == n \div d
        r == n % d
    IN  IF 2 * r > d \/ (2 * r = d /\ q % 2 = 1) THEN q + 1 ELSE q

\* C1: with maxLevel >= 0 the setter stores clamp(value, 0, maxLevel): in
\* VM-simulated mode the getter then returns it, in hardware mode it is the
\* integer handed to brightnessctl; and simulatedLevel stays in 0..maxLevel.
C1_ClampStored ==
    /\ (op = "set" /\ max_screen >= 0 /\ Simulated)
          => ReadBrightness = Clamp(arg, 0, max_screen)
    /\ (op = "set" /\ max_screen >= 0 /\ ~Simulated)
          => /\ Len(invoked) = 1
             /\ invoked[1].value = Clamp(arg, 0, max_screen)
    /\ Simulated => simulated_brightness \in 0..max_screen

C1_Witness ==
    /\ op = "set" /\ Simulated
    /\ arg > max_screen
    /\ ReadBrightness = max_screen

\* C2: with maxLevel > 0 the payload of the screen event of a setter call is
\* round(clamp(value, 0, maxLevel) / maxLevel * 100), within 0..100.
C2_PayloadRounded ==
    (op = "set" /\ max_screen > 0 /\ emitted # <<>>)
        => /\ emitted[1] = RoundDiv(PERCENT * Clamp(arg, 0, max_screen), max_screen)
           /\ emitted[1] \in 0..PERCENT

\* C7: without a backlight device and outside a VM no step raises a screen
\* event or invokes brightnessctl.
C7_Inert ==
    (screen_device = "" /\ ~vm_mode) => (emitted = <<>> /\ invoked = <<>>)

\* C8: the setter lets no exception through to its caller, whatever the
\* value, maxLevel (-1 and 0 included) and the fate of the command.
C8_NoRaise ==
    op = "set" => raised = NoException

C8_Witness ==
    /\ op = "set" /\ ~Simulated
    /\ max_screen = 0
    /\ invoked[1].outcome = "ok"
    /\ emitted = <<>>

Malformed(reply) ==
    \/ reply.kind # "array"
    \/ \E k \in 1..Len(reply.monitors) :
           ~({"id", "name"} \subseteq DOMAIN reply.monitors[k])

\* The mapping id -> name of a well-formed monitor list.
MappingOf(ms) ==
    LET Last(i) == CHOOSE k \in 1..Len(ms) :
                       /\ ms[k].id = i
                       /\ \A j \in (k + 1)..Len(ms) : ms[j].id # i
    IN  [i \in {ms[k].id : k \in 1..Len(ms)} |-> ms[Last(i)].name]

FallbackMap == IF VM_MODE THEN [i \in {0} |-> "XWAYLAND0"] ELSE [i \in {} |-> ""]

\* C3: within one time window at most one j/monitors request is sent, and
\* every call returns the very object the first call of the window returned.
C3_OneRequestPerWindow ==
    /\ n_sent <= 1
    /\ op = "get_all_monitors" => ret = first.ret

C3_Witness ==
    /\ op = "get_all_monitors" /\ n_calls >= 2
    /\ invoked = <<>>
    /\ ~Malformed(arg)
    /\ ret[1].map # MappingOf(arg.monitors)

\* C4: the first call in a window that follows a call in an earlier window
\* sends a request and returns a new mapping built from the reply current
\* at that call, not the object returned in the earlier window (the clock
\* is not set back between the calls).
C4_FreshInNewWindow ==
    (op = "get_all_monitors" /\ n_calls = 1 /\ prev # NoneVal)
        => /\ invoked = <<"j/monitors">>
           /\ ret # NoneVal
           /\ ret[1].map = (IF Malformed(arg) THEN FallbackMap
                            ELSE MappingOf(arg.monitors))
           /\ ret[1].obj # prev[1].obj

C4_Witness ==
    /\ op = "get_all_monitors" /\ n_calls = 1 /\ prev # NoneVal
    /\ ret # NoneVal
    /\ ret[1].map # prev[1].map

\* C5: get_all_monitors never raises; a call whose request fails or whose
\* reply is malformed returns {0: "XWAYLAND0"} in a VM and {} otherwise.
C5_FallbackOnFailure ==
    op = "get_all_monitors"
        => /\ raised = NoException
           /\ (invoked # <<>> /\ Malformed(arg))
                 => (ret # NoneVal /\ ret[1].map = FallbackMap)

C5_Witness ==
    /\ op = "get_all_monitors" /\ invoked # <<>>
    /\ VM_MODE
    /\ arg.kind = "array" /\ Malformed(arg)
    /\ ret[1].map = FallbackMap

\* C10: when the first call of a window failed, every later call of the
\* window returns that same fallback object and sends no request, also when
\* the compositor would now answer well.
C10_FallbackCached ==
    (op = "get_all_monitors" /\ n_calls >= 2 /\ first.failed)
        => /\ invoked = <<>>
           /\ ret # NoneVal
           /\ ret = first.ret
           /\ ret[1].map = FallbackMap

C10_Witness ==
    /\ op = "get_all_monitors" /\ n_calls >= 2 /\ first.failed
    /\ ~Malformed(arg)
    /\ ret = first.ret

\* C6: get_gdk_monitor_id_from_name returns the smallest index whose plug
\* name is the one asked for, passing over indexes whose lookup raises;
\* without a match, or without a display, it returns 0 in a VM and None
\* otherwise, and it never raises.
C6_FirstMatch ==
    op = "get_gdk_monitor_id_from_name"
        => LET matches == IF display.available
                          THEN {i \in 1..Len(display.plugs) : display.plugs[i] = arg}
                          ELSE {}
               least   == CHOOSE i \in matches : \A j \in matches : i <= j
           IN  /\ raised = NoException
               /\ ret = IF matches # {} THEN Some(least - 1)
                        ELSE IF VM_MODE THEN Some(0) ELSE NoneVal

C6_Witness ==
    /\ op = "get_gdk_monitor_id_from_name"
    /\ display.available
    /\ Len(display.plugs) = 2
    /\ display.plugs[1] = LookupFails
    /\ display.plugs[2] = arg
    /\ ret = Some(1)

====
